---- MODULE Spec2Model ----
(***************************************************************************)
(* ReliReader.read_sentences and main of preprocess.py.                    *)
(*                                                                         *)
(* Strings are sequences of one-character strings, so that startswith,     *)
(* strip, replace, split and the int/float parsers are computed on the     *)
(* text.  None is the empty tuple and a set value v is the 1-tuple <<v>>.  *)
(***************************************************************************)
EXTENDS Integers, Sequences, FiniteSets, TLC

\* ------------------------------------------------------------------ bounds
MaxLines == 3
MaxDocs == 2

\* ------------------------------------------------------------ python values
None == <<>>
Some(v) == <<v>>

Whitespace == {" ", "\t", "\n"}
Digits == <<"0", "1", "2", "3", "4", "5", "6", "7", "8", "9">>
DigitSet == {Digits[i] : i \in 1..10}
DigitValue(c) == (CHOOSE i \in 1..10 : Digits[i] = c) - 1

startswith(s, p) == Len(s) >= Len(p) /\ SubSeq(s, 1, Len(p)) = p

RECURSIVE lstrip(_, _)
lstrip(s, chars) ==
    IF s # <<>> /\ Head(s) \in chars THEN lstrip(Tail(s), chars) ELSE s

RECURSIVE rstrip(_, _)
rstrip(s, chars) ==
    IF s # <<>> /\ s[Len(s)] \in chars
    THEN rstrip(SubSeq(s, 1, Len(s) - 1), chars)
    ELSE s

strip(s, chars) == rstrip(lstrip(s, chars), chars)

\* str.replace(old, ""): every non-overlapping occurrence, left to right
RECURSIVE remove(_, _)
remove(s, old) ==
    IF s = <<>> THEN <<>>
    ELSE IF startswith(s, old) THEN remove(SubSeq(s, Len(old) + 1, Len(s)), old)
    ELSE <<Head(s)>> \o remove(Tail(s), old)

\* str.split(sep) for a one-character separator: always at least one column
RECURSIVE split(_, _)
split(s, sep) ==
    IF \A i \in 1..Len(s) : s[i] # sep THEN <<s>>
    ELSE LET k == CHOOSE i \in 1..Len(s) :
                      s[i] = sep /\ \A j \in 1..(i - 1) : s[j] # sep
         IN <<SubSeq(s, 1, k - 1)>> \o split(SubSeq(s, k + 1, Len(s)), sep)

\* " ".join(tokens)
RECURSIVE join(_)
join(tokens) ==
    IF tokens = <<>> THEN <<>>
    ELSE IF Len(tokens) = 1 THEN tokens[1]
    ELSE tokens[1] \o <<" ">> \o join(Tail(tokens))

RECURSIVE flatten_2d_list(_)
flatten_2d_list(nested_list) ==
    IF nested_list = <<>> THEN <<>>
    ELSE Head(nested_list) \o flatten_2d_list(Tail(nested_list))

\* digits, single underscores allowed between two digits
IsDigitRun(s) ==
    /\ s # <<>>
    /\ \A i \in 1..Len(s) : s[i] \in DigitSet \cup {"_"}
    /\ s[1] # "_" /\ s[Len(s)] # "_"
    /\ \A i \in 1..(Len(s) - 1) : ~(s[i] = "_" /\ s[i + 1] = "_")

RECURSIVE DigitRunValue(_)
DigitRunValue(s) ==
    IF s = <<>> THEN 0
    ELSE IF s[Len(s)] = "_" THEN DigitRunValue(SubSeq(s, 1, Len(s) - 1))
    ELSE 10 * DigitRunValue(SubSeq(s, 1, Len(s) - 1)) + DigitValue(s[Len(s)])

Unsigned(s) == IF s # <<>> /\ s[1] \in {"+", "-"} THEN Tail(s) ELSE s
Sign(s) == IF s # <<>> /\ s[1] = "-" THEN -1 ELSE 1

\* int(text): surrounding whitespace, optional sign, decimal digits
IsIntLiteral(text) == IsDigitRun(Unsigned(strip(text, Whitespace)))
IntValue(text) ==
    LET t == strip(text, Whitespace) IN Sign(t) * DigitRunValue(Unsigned(t))

\* float(text) for decimal literals  digits[.digits] | digits. | .digits
\* (exponents, inf and nan do not occur in the lines of LineMenu)
IsFloatLiteral(text) ==
    LET u == Unsigned(strip(text, Whitespace))
        parts == split(u, ".")
    IN \/ Len(parts) = 1 /\ IsDigitRun(parts[1])
       \/ /\ Len(parts) = 2
          /\ parts[1] = <<>> \/ IsDigitRun(parts[1])
          /\ parts[2] = <<>> \/ IsDigitRun(parts[2])
          /\ parts[1] # <<>> \/ parts[2] # <<>>

RECURSIVE NormFloat(_, _)
NormFloat(num, scale) ==
    IF scale > 0 /\ num % 10 = 0 THEN NormFloat(num \div 10, scale - 1)
    ELSE [num |-> num, scale |-> scale]

RECURSIVE DigitCount(_)
DigitCount(s) ==
    IF s = <<>> THEN 0
    ELSE (IF Head(s) = "_" THEN 0 ELSE 1) + DigitCount(Tail(s))

\* the float as num * 10^-scale in lowest terms of ten
FloatValue(text) ==
    LET t == strip(text, Whitespace)
        parts == split(Unsigned(t), ".")
        frac == IF Len(parts) = 2 THEN parts[2] ELSE <<>>
        n == NormFloat(DigitRunValue(parts[1] \o frac), DigitCount(frac))
    IN [num |-> Sign(t) * n.num, scale |-> n.scale]

RECURSIVE IntToStr(_)
IntToStr(n) ==
    IF n < 0 THEN <<"-">> \o IntToStr(-n)
    ELSE IF n < 10 THEN <<Digits[n + 1]>>
    ELSE IntToStr(n \div 10) \o <<Digits[(n % 10) + 1]>>

NoneStr == <<"N", "o", "n", "e">>

\* ------------------------------------------------------- ReliReader.__init__
\* the source bytes of title_string are "#T" C3 83 C2 AD "tulo"
title_string == <<"#", "T", "xC3x83", "xC2xAD", "t", "u", "l", "o">>
body_string == <<"#", "C", "o", "r", "p", "o">>
book_string == <<"#", "L", "i", "v", "r", "o">>
review_id_string == <<"#", "R", "e", "s", "e", "n", "h", "a">>
score_string == <<"#", "N", "o", "t", "a">>

\* ---------------------------------------------------------- line predicates
\* variant: no line is taken for a skip-line
must_skip_line_Never(line) == FALSE

must_skip_line(line) == startswith(line, <<"[">>)
is_metadata(line) == startswith(line, <<"#">>)
is_separator_line(line) == strip(line, Whitespace) = <<>>

is_title(line) == startswith(line, title_string)
is_body(line) == startswith(line, body_string)
is_book(line) == startswith(line, book_string)
is_review_id(line) == startswith(line, review_id_string)
is_score(line) == startswith(line, score_string)

DirectiveText(line, prefix) == strip(strip(remove(line, prefix), Whitespace), {"_"})

get_book(line) == DirectiveText(line, book_string)
review_id_raises(line) == ~IsIntLiteral(DirectiveText(line, review_id_string))
get_review_id(line) == IntValue(DirectiveText(line, review_id_string))
score_raises(line) == ~IsFloatLiteral(DirectiveText(line, score_string))
get_score(line) == FloatValue(DirectiveText(line, score_string))

get_unique_review_id(source, book, review_id) ==
    SubSeq(source, 1, Len(source) - 4) \o <<"_">>
        \o (IF book = None THEN NoneStr ELSE book[1]) \o <<"_">>
        \o (IF review_id = None THEN NoneStr ELSE IntToStr(review_id[1]))

\* ------------------------------------------------------------ label aggregation
endswith(s, c) == s # <<>> /\ s[Len(s)] = c

\* variant: the label is tested without being stripped
RECURSIVE ScanLabels_NoStrip(_, _)
ScanLabels_NoStrip(label_list, seen) ==
    IF label_list = <<>> THEN seen
    ELSE LET label == Head(label_list)
         IN ScanLabels_NoStrip(Tail(label_list),
                IF endswith(label, "+") THEN [seen EXCEPT !.positive = TRUE]
                ELSE IF endswith(label, "-") THEN [seen EXCEPT !.negative = TRUE]
                ELSE seen)

\* variant: the loop stops at the first label that ends with '+' or '-'
RECURSIVE ScanLabels_Break(_, _)
ScanLabels_Break(label_list, seen) ==
    IF label_list = <<>> THEN seen
    ELSE LET label == strip(Head(label_list), Whitespace)
         IN IF endswith(label, "+") THEN [seen EXCEPT !.positive = TRUE]
            ELSE IF endswith(label, "-") THEN [seen EXCEPT !.negative = TRUE]
            ELSE ScanLabels_Break(Tail(label_list), seen)

RECURSIVE ScanLabels(_, _)
ScanLabels(label_list, seen) ==
    IF label_list = <<>> THEN seen
    ELSE LET label == strip(Head(label_list), Whitespace)
         IN ScanLabels(Tail(label_list),
                IF endswith(label, "+") THEN [seen EXCEPT !.positive = TRUE]
                ELSE IF endswith(label, "-") THEN [seen EXCEPT !.negative = TRUE]
                ELSE seen)

convert_labels(labels) ==
    LET seen == ScanLabels(flatten_2d_list(labels),
                           [positive |-> FALSE, negative |-> FALSE])
    IN IF seen.positive /\ ~seen.negative THEN "positive"
       ELSE IF seen.negative /\ ~seen.positive THEN "negative"
       ELSE IF seen.positive /\ seen.negative THEN "mixed"
       ELSE "neutral"

convert_buffer(buffer) ==
    LET columns(i) == split(buffer[i], "\t")
        labels == [i \in 1..Len(buffer) |-> Tail(columns(i))]
        tokens == [i \in 1..Len(buffer) |-> Head(columns(i))]
    IN [sentence |-> join(tokens), label |-> convert_labels(labels)]

\* ------------------------------------------------------------------ input
Letters == <<"a", "b", "c", "d", "e">>
\* self.files: distinct names, read in list order
Filename(f) == <<Letters[f], ".", "t", "x", "t">>

SkipLine == <<"[", "x", "\n">>
TitleLine == title_string \o <<"\n">>
BodyLine == body_string \o <<"\n">>
BookLine == book_string \o <<"_", "B", "_", "\n">>
ReviewLine5 == review_id_string \o <<"_", "5", "\n">>
ReviewLine7 == review_id_string \o <<"_", "7", "_", "\n">>
BadReviewLine == review_id_string \o <<"_", "x", "\n">>
ScoreLine == score_string \o <<"_", "4", ".", "5", "\n">>
BadScoreLine == score_string \o <<"\n">>
OtherHashLine == <<"#", "x", "\n">>
BlankLine == <<"\n">>
PosLine == <<"a", "\t", "P", "+", "\n">>
NegLine == <<"b", "\t", "N", "-", "\n">>
NoLabelLine == <<"c", "\n">>
NeutralLine == <<"d", "\t", "O", "\n">>
TwoLabelLine == <<"e", "\t", "X", "+", "\t", "Y", "-", "\n">>

LineMenu ==
    { SkipLine, TitleLine, BodyLine, BookLine, ReviewLine5, ReviewLine7,
      BadReviewLine, ScoreLine, BadScoreLine, OtherHashLine, BlankLine,
      PosLine, NegLine }

\* the lines a file of sentences is made of: content lines with no, one or two
\* label columns, and the blank line that separates sentences
LabelMenu ==
    { BlankLine, PosLine, NegLine, NoLabelLine, NeutralLine, TwoLabelLine }

\* ------------------------------------------------------------------ state
VARIABLES
    cur_file,           \* read_lines: index in self.files of the open file, 0 before the first
    stream,             \* read_lines: the (filename, line) pairs produced so far
    buffer,             \* read_sentences: buffer
    buffer_origin,      \* history: for each buffered line, where and under which title flag it was read
    previous_filename,  \* read_sentences: previous_filename
    metadata_fields,    \* read_sentences: the one metadata_fields dict
    yielded,            \* the values the generator has yielded, as seen when delivered
    pc,                 \* the generator: "running", "done" (exhausted) or "raised"
    book_dict,          \* main: book_dict, in insertion order
    main_pc,            \* main: "consuming", "written" or "crashed"
    tables              \* main: train_df, dev_df, test_df once concatenated

vars == <<cur_file, stream, buffer, buffer_origin, previous_filename,
          metadata_fields, yielded, pc, book_dict, main_pc, tables>>

\* the identity of the dict created at line 88; every yield hands out this object
MetadataObj == "metadata_fields"
Deref(obj) == metadata_fields

InitialMetadata ==
    [source |-> None, title |-> None, book |-> None, review_id |-> None,
     score |-> None, sentence_id |-> None]

GenState ==
    [buffer |-> buffer, buffer_origin |-> buffer_origin,
     previous_filename |-> previous_filename,
     metadata_fields |-> metadata_fields, yielded |-> yielded, pc |-> pc]

InitialGenState ==
    [buffer |-> <<>>, buffer_origin |-> <<>>, previous_filename |-> None,
     metadata_fields |-> InitialMetadata, yielded |-> <<>>, pc |-> "running"]

\* ------------------------------------------------------- read_sentences
\* yield metadata_fields, self.convert_buffer(buffer)
YieldValue(s, idx, cause) ==
    LET converted == convert_buffer(s.buffer)
    IN [obj |-> MetadataObj, fields |-> s.metadata_fields,
        sentence |-> converted.sentence, label |-> converted.label,
        origin |-> s.buffer_origin, at |-> idx, cause |-> cause]

\* yield ...; buffer = []
Flush(s, idx, cause) ==
    [s EXCEPT !.yielded = Append(@, YieldValue(s, idx, cause)),
              !.buffer = <<>>, !.buffer_origin = <<>>]

\* variant: a document change does not flush
DocChangeFlush_Never(s, idx, filename) == s

\* variant: a document change yields the buffer but does not clear it
DocChangeFlush_NoClear(s, idx, filename) ==
    IF s.previous_filename # None /\ Some(filename) # s.previous_filename /\ s.buffer # <<>>
    THEN [s EXCEPT !.yielded = Append(@, YieldValue(s, idx, "document"))]
    ELSE s

\* variant: the comparison of the file names is inverted
DocChangeFlush_Inverted(s, idx, filename) ==
    IF s.previous_filename # None /\ Some(filename) = s.previous_filename
    THEN IF s.buffer # <<>> THEN Flush(s, idx, "document") ELSE s
    ELSE s

\* lines 98-101
DocChangeFlush(s, idx, filename) ==
    IF s.previous_filename # None /\ Some(filename) # s.previous_filename
    THEN IF s.buffer # <<>> THEN Flush(s, idx, "document") ELSE s
    ELSE s

\* variant: the sticky fields are reset when the document changes
RefreshMetadata_ResetOnNewDoc(fields, idx, filename) ==
    LET kept == IF fields.source # Some(filename)
                THEN [fields EXCEPT !.book = None, !.review_id = None, !.score = None]
                ELSE fields
    IN ("unique_review_id" :>
            get_unique_review_id(filename, kept.book, kept.review_id))
       @@ [kept EXCEPT !.sentence_id = Some(idx), !.source = Some(filename)]

\* variant: sentence_id is set on the first refresh only
RefreshMetadata_IdOnce(fields, idx, filename) ==
    ("unique_review_id" :>
        get_unique_review_id(filename, fields.book, fields.review_id))
    @@ [fields EXCEPT
            !.sentence_id = IF @ = None THEN Some(idx) ELSE @,
            !.source = Some(filename)]

\* lines 106-108
RefreshMetadata(fields, idx, filename) ==
    ("unique_review_id" :>
        get_unique_review_id(filename, fields.book, fields.review_id))
    @@ [fields EXCEPT !.sentence_id = Some(idx), !.source = Some(filename)]

\* variant: a title or body directive flushes the buffer before setting the flag
Dispatch_FlushOnFlag(s, line) ==
    LET t == IF (is_title(line) \/ is_body(line)) /\ s.buffer # <<>>
             THEN Flush(s, s.metadata_fields.sentence_id[1], "flag")
             ELSE s
    IN IF is_title(line) THEN [t EXCEPT !.metadata_fields.title = Some(TRUE)]
       ELSE IF is_body(line) THEN [t EXCEPT !.metadata_fields.title = Some(FALSE)]
       ELSE IF is_book(line)
            THEN [t EXCEPT !.metadata_fields.book = Some(get_book(line))]
       ELSE IF is_review_id(line)
            THEN IF review_id_raises(line) THEN [t EXCEPT !.pc = "raised"]
                 ELSE [t EXCEPT !.metadata_fields.review_id = Some(get_review_id(line))]
       ELSE IF is_score(line)
            THEN IF score_raises(line) THEN [t EXCEPT !.pc = "raised"]
                 ELSE [t EXCEPT !.metadata_fields.score = Some(get_score(line))]
       ELSE t

\* variant: a directive that cannot be parsed flushes the buffer before raising
Dispatch_FlushOnError(s, line) ==
    LET failed == IF s.buffer # <<>>
                  THEN [Flush(s, s.metadata_fields.sentence_id[1], "error")
                            EXCEPT !.pc = "raised"]
                  ELSE [s EXCEPT !.pc = "raised"]
    IN IF is_title(line) THEN [s EXCEPT !.metadata_fields.title = Some(TRUE)]
       ELSE IF is_body(line) THEN [s EXCEPT !.metadata_fields.title = Some(FALSE)]
       ELSE IF is_book(line)
            THEN [s EXCEPT !.metadata_fields.book = Some(get_book(line))]
       ELSE IF is_review_id(line)
            THEN IF review_id_raises(line) THEN failed
                 ELSE [s EXCEPT !.metadata_fields.review_id = Some(get_review_id(line))]
       ELSE IF is_score(line)
            THEN IF score_raises(line) THEN failed
                 ELSE [s EXCEPT !.metadata_fields.score = Some(get_score(line))]
       ELSE s

\* lines 111-120
Dispatch(s, line) ==
    IF is_title(line) THEN [s EXCEPT !.metadata_fields.title = Some(TRUE)]
    ELSE IF is_body(line) THEN [s EXCEPT !.metadata_fields.title = Some(FALSE)]
    ELSE IF is_book(line)
         THEN [s EXCEPT !.metadata_fields.book = Some(get_book(line))]
    ELSE IF is_review_id(line)
         THEN IF review_id_raises(line) THEN [s EXCEPT !.pc = "raised"]
              ELSE [s EXCEPT !.metadata_fields.review_id = Some(get_review_id(line))]
    ELSE IF is_score(line)
         THEN IF score_raises(line) THEN [s EXCEPT !.pc = "raised"]
              ELSE [s EXCEPT !.metadata_fields.score = Some(get_score(line))]
    ELSE s

\* variant: a blank line flushes whether or not the buffer is empty
SeparatorOrContent_AlwaysFlush(s, idx, filename, line) ==
    LET t == IF is_separator_line(line)
             THEN Flush(s, idx, "blank")
             ELSE [s EXCEPT !.buffer = Append(@, line),
                            !.buffer_origin = Append(@,
                                [doc |-> filename, idx |-> idx,
                                 title |-> s.metadata_fields.title])]
    IN [t EXCEPT !.previous_filename = Some(filename)]

\* variant: a blank line does not flush
SeparatorOrContent_NoFlush(s, idx, filename, line) ==
    LET t == IF is_separator_line(line)
             THEN s
             ELSE [s EXCEPT !.buffer = Append(@, line),
                            !.buffer_origin = Append(@,
                                [doc |-> filename, idx |-> idx,
                                 title |-> s.metadata_fields.title])]
    IN [t EXCEPT !.previous_filename = Some(filename)]

\* lines 123-129
SeparatorOrContent(s, idx, filename, line) ==
    LET t == IF is_separator_line(line)
             THEN IF s.buffer # <<>> THEN Flush(s, idx, "blank") ELSE s
             ELSE [s EXCEPT !.buffer = Append(@, line),
                            !.buffer_origin = Append(@,
                                [doc |-> filename, idx |-> idx,
                                 title |-> s.metadata_fields.title])]
    IN [t EXCEPT !.previous_filename = Some(filename)]

\* variant: the skip test comes before the document-change flush
LoopBody_SkipFirst(s, idx, filename, line) ==
    IF must_skip_line(line) THEN s
    ELSE LET s1 == DocChangeFlush(s, idx, filename)
             s2 == [s1 EXCEPT !.metadata_fields = RefreshMetadata(@, idx, filename)]
         IN IF is_metadata(line) THEN Dispatch(s2, line)
            ELSE SeparatorOrContent(s2, idx, filename, line)

\* variant: the metadata is refreshed before the document-change flush
LoopBody_RefreshFirst(s, idx, filename, line) ==
    IF must_skip_line(line) THEN DocChangeFlush(s, idx, filename)
    ELSE LET s1 == [s EXCEPT !.metadata_fields = RefreshMetadata(@, idx, filename)]
             s2 == DocChangeFlush(s1, idx, filename)
         IN IF is_metadata(line) THEN Dispatch(s2, line)
            ELSE SeparatorOrContent(s2, idx, filename, line)

\* one iteration of the for loop, lines 96-129
LoopBody(s, idx, filename, line) ==
    LET s1 == DocChangeFlush(s, idx, filename)
    IN IF must_skip_line(line) THEN s1
       ELSE LET s2 == [s1 EXCEPT !.metadata_fields =
                            RefreshMetadata(@, idx, filename)]
            IN IF is_metadata(line) THEN Dispatch(s2, line)
               ELSE SeparatorOrContent(s2, idx, filename, line)

\* variant: no flush after the loop
AfterLoop_NoFlush(s, idx) == [s EXCEPT !.pc = "done"]

\* lines 131-132 and the generator's return
AfterLoop(s, idx) ==
    LET t == IF s.buffer # <<>> THEN Flush(s, idx, "end") ELSE s
    IN [t EXCEPT !.pc = "done"]

\* ------------------------------------------------------------------ main
\* lines 160-164
Row(rec) == [sentence |-> rec.sentence, label |-> rec.label] @@ rec.fields

MainConsume(dict, rec) ==
    LET key == rec.fields.source
    IN IF \E i \in 1..Len(dict) : dict[i].source = key
       THEN [i \in 1..Len(dict) |->
                IF dict[i].source = key
                THEN [dict[i] EXCEPT !.rows = Append(@, Row(rec))]
                ELSE dict[i]]
       ELSE Append(dict, [source |-> key, rows |-> <<Row(rec)>>])

RECURSIVE MainConsumeAll(_, _)
MainConsumeAll(dict, recs) ==
    IF recs = <<>> THEN dict
    ELSE MainConsumeAll(MainConsume(dict, Head(recs)), Tail(recs))

\* int(len(book_dict) * 0.16), int(len(book_dict) * 0.2)
dev_count(n) == (n * 16) \div 100
test_count(n) == (n * 20) \div 100

Keys(dict) == [i \in 1..Len(dict) |-> dict[i].source]

\* pd.concat: raises ValueError on an empty list of frames
concat_raises(books) == books = <<>>
RECURSIVE concat(_, _)
concat(dict, books) ==
    IF books = <<>> THEN <<>>
    ELSE (CHOOSE e \in {dict[i] : i \in 1..Len(dict)} : e.source = Head(books)).rows
            \o concat(dict, Tail(books))

dev_books(dict) == SubSeq(Keys(dict), 1, dev_count(Len(dict)))
test_books(dict) ==
    SubSeq(Keys(dict), dev_count(Len(dict)) + 1,
           dev_count(Len(dict)) + test_count(Len(dict)))
train_books(dict) ==
    SubSeq(Keys(dict), dev_count(Len(dict)) + test_count(Len(dict)) + 1, Len(dict))

NoTables == [train |-> None, dev |-> None, test |-> None]

\* ---------------------------------------------------------------- actions
Init ==
    /\ cur_file = 0
    /\ stream = <<>>
    /\ buffer = <<>>
    /\ buffer_origin = <<>>
    /\ previous_filename = None
    /\ metadata_fields = InitialMetadata
    /\ yielded = <<>>
    /\ pc = "running"
    /\ book_dict = <<>>
    /\ main_pc = "consuming"
    /\ tables = NoTables

Deliver(s) ==
    /\ buffer' = s.buffer
    /\ buffer_origin' = s.buffer_origin
    /\ previous_filename' = s.previous_filename
    /\ metadata_fields' = s.metadata_fields
    /\ yielded' = s.yielded
    /\ pc' = s.pc
    /\ book_dict' = MainConsumeAll(book_dict,
                        SubSeq(s.yielded, Len(yielded) + 1, Len(s.yielded)))
    /\ main_pc' = IF s.pc = "raised" THEN "crashed" ELSE main_pc

\* the generator takes the next (filename, line) of read_lines, the line being
\* one of menu, and runs the loop body
ReadLineOf(menu) ==
    /\ pc = "running"
    /\ Len(stream) < MaxLines
    /\ \E f \in 1..MaxDocs, line \in menu :
        /\ f >= cur_file
        /\ cur_file' = f
        /\ stream' = Append(stream, [filename |-> Filename(f), line |-> line])
        /\ Deliver(LoopBody(GenState, Len(stream), Filename(f), line))
    /\ UNCHANGED tables

ReadLine == ReadLineOf(LineMenu)

\* the same step over files that hold sentences only
ReadLabelledLine == ReadLineOf(LabelMenu)

\* read_lines is exhausted: the final flush, and the generator returns
EndOfStream ==
    /\ pc = "running"
    /\ Deliver(AfterLoop(GenState, Len(stream)))
    /\ UNCHANGED <<cur_file, stream, tables>>

\* main, lines 165-177, once the for loop over the generator has ended
MainSplit ==
    /\ pc = "done"
    /\ main_pc = "consuming"
    /\ IF \/ concat_raises(train_books(book_dict))
          \/ concat_raises(dev_books(book_dict))
          \/ concat_raises(test_books(book_dict))
       THEN main_pc' = "crashed" /\ tables' = tables
       ELSE /\ main_pc' = "written"
            /\ tables' = [train |-> Some(concat(book_dict, train_books(book_dict))),
                          dev |-> Some(concat(book_dict, dev_books(book_dict))),
                          test |-> Some(concat(book_dict, test_books(book_dict)))]
    /\ UNCHANGED <<cur_file, stream, buffer, buffer_origin, previous_filename,
                   metadata_fields, yielded, pc, book_dict>>

Next == ReadLine \/ EndOfStream \/ MainSplit

Spec == Init /\ [][Next]_vars

\* the program run on files that hold sentences only
NextLabels == ReadLabelledLine \/ EndOfStream \/ MainSplit

SpecLabels == Init /\ [][NextLabels]_vars

\* ------------------------------------------------ the stream, read directly
\* the classification of a raw line by its text
StartsWithBracket(line) == line # <<>> /\ line[1] = "["
StartsWithHash(line) == line # <<>> /\ line[1] = "#"
IsBlankText(line) == \A i \in 1..Len(line) : line[i] \in Whitespace
IsContent(line) ==
    ~StartsWithBracket(line) /\ ~StartsWithHash(line) /\ ~IsBlankText(line)
IsBlank(line) ==
    ~StartsWithBracket(line) /\ ~StartsWithHash(line) /\ IsBlankText(line)

\* line j and line i > j of str lie in one run: no document change and no
\* blank line from j to i
Connected(str, j, i) ==
    /\ \A k \in j..i : str[k].filename = str[j].filename
    /\ \A k \in j..i : ~IsBlank(str[k].line)

\* content line i opens a run of str
RunStart(str, i) ==
    /\ IsContent(str[i].line)
    /\ ~\E j \in 1..(i - 1) : IsContent(str[j].line) /\ Connected(str, j, i)

NumRuns(str) == Cardinality({i \in 1..Len(str) : RunStart(str, i)})

\* the last run of str is still open after its last line
OpenRun(str) ==
    \E j \in 1..Len(str) : IsContent(str[j].line) /\ Connected(str, j, Len(str))

\* the last line read
LastLine == stream[Len(stream)]

\* this step is one iteration of the for loop
ReadStep == pc = "running" /\ Len(stream') = Len(stream) + 1
\* this step is the end of the stream
EndStep == pc = "running" /\ pc' = "done"

\* C1: when the stream has ended without a malformed directive, the number of
\* records emitted equals the number of non-empty maximal runs of content
\* lines, a run being ended only by a blank line, a document change or the
\* end of the stream.
C1_RecordCount == pc = "done" => Len(yielded) = NumRuns(stream)

C1_Witness ==
    /\ pc = "done"
    /\ Len(yielded) = 2
    /\ yielded[1].cause = "document"
    /\ yielded[2].cause = "end"

\* C2: the buffer is flushed on a document change before the new document's
\* first line is processed: all buffered lines come from one document, and so
\* do all content lines of every emitted record.
C2_OneDocument ==
    /\ Len(buffer_origin) = Len(buffer)
    /\ \A i, j \in 1..Len(buffer_origin) : buffer_origin[i].doc = buffer_origin[j].doc
    /\ \A r \in 1..Len(yielded) :
          \A i, j \in 1..Len(yielded[r].origin) :
              yielded[r].origin[i].doc = yielded[r].origin[j].doc

C2_Witness ==
    /\ yielded # <<>>
    /\ yielded[Len(yielded)].cause = "document"
    /\ buffer # <<>>
    /\ buffer_origin[1].doc # yielded[Len(yielded)].origin[1].doc

\* ---------------------------------------------- the scan as a function
RECURSIVE RunLoop(_, _, _)
RunLoop(s, str, i) ==
    IF i > Len(str) \/ s.pc # "running" THEN s
    ELSE RunLoop(LoopBody(s, i - 1, str[i].filename, str[i].line), str, i + 1)

\* the generator run to its end over the stream str
read_sentences(str) ==
    LET s == RunLoop(InitialGenState, str, 1)
    IN IF s.pc = "running" THEN AfterLoop(s, Len(str)) ELSE s

\* str with every line that starts with '[' deleted
RemoveSkips(str) == SelectSeq(str, LAMBDA e : ~StartsWithBracket(e.line))

\* what the consumer receives of a yield: the metadata fields, sentence, label
Records(ys) ==
    [i \in 1..Len(ys) |->
        [fields |-> ys[i].fields, sentence |-> ys[i].sentence, label |-> ys[i].label]]

RecordsButSentenceId(ys) ==
    [i \in 1..Len(ys) |->
        [fields |-> [ys[i].fields EXCEPT !.sentence_id = None],
         sentence |-> ys[i].sentence, label |-> ys[i].label]]

\* C3 as stated: deleting the skip-lines of the input leaves the emitted
\* records the same in every field, sentence_id included.
C3_SkipInvisible ==
    pc # "running" =>
        Records(yielded) = Records(read_sentences(RemoveSkips(stream)).yielded)

\* C3 amended: over distinct files, deleting the skip-lines of the input
\* leaves the emitted records the same in every field but sentence_id (the
\* ordinal of a line in the scanned stream, skip-lines counted), and the scan
\* ends the same way.
C3_SkipInvisibleButId ==
    pc # "running" =>
        LET t == read_sentences(RemoveSkips(stream))
        IN /\ RecordsButSentenceId(yielded) = RecordsButSentenceId(t.yielded)
           /\ t.pc = pc

\* a skip-line between two content lines of one emitted sentence
C3_Witness ==
    /\ pc = "done"
    /\ Len(yielded) = 1
    /\ Len(yielded[1].origin) = 2
    /\ \E i \in 2..(Len(stream) - 1) :
          /\ StartsWithBracket(stream[i].line)
          /\ IsContent(stream[i - 1].line)
          /\ IsContent(stream[i + 1].line)

\* C4: what a consumer that kept the yielded values reads in their metadata
\* now is what each record held when it was emitted.
C4_OwnCopy ==
    \A i \in 1..Len(yielded) : Deref(yielded[i].obj) = yielded[i].fields

\* C5 as stated: every content line of an emitted record was read under the
\* title flag the record reports.
C5_FlagIsBoundary ==
    \A r \in 1..Len(yielded) :
        \A i \in 1..Len(yielded[r].origin) :
            yielded[r].origin[i].title = yielded[r].fields.title

\* C5 amended: a title or body directive is not a sentence boundary: read in
\* the document of the buffered lines it sets the title flag, leaves the
\* buffer as it is and emits nothing, so a record reports the flag in force
\* when it is emitted.
C5_FlagIsNoBoundary ==
    [][(/\ ReadStep
        /\ buffer # <<>>
        /\ is_title(stream'[Len(stream')].line) \/ is_body(stream'[Len(stream')].line)
        /\ stream'[Len(stream')].filename = buffer_origin[1].doc)
       => /\ buffer' = buffer
          /\ yielded' = yielded
          /\ metadata_fields'.title = Some(is_title(stream'[Len(stream')].line))]_vars

C5_Witness ==
    /\ pc = "done"
    /\ \E r \in 1..Len(yielded) :
          /\ Len(yielded[r].origin) = 2
          /\ yielded[r].origin[1].title = None
          /\ yielded[r].origin[2].title = Some(TRUE)
          /\ yielded[r].fields.title = Some(TRUE)

\* C6: a record is emitted exactly when the buffer is non-empty at a boundary
\* (blank line, document change, end of stream); the record holds at least
\* one content line, and the lines it holds have left the buffer.
C6_EmitIffBoundary ==
    [][(ReadStep \/ EndStep) =>
        LET boundary ==
                \/ EndStep
                \/ /\ ReadStep
                   /\ \/ IsBlank(stream'[Len(stream')].line)
                      \/ /\ stream # <<>>
                         /\ stream'[Len(stream')].filename # LastLine.filename
        IN /\ (yielded' # yielded) <=> (boundary /\ buffer # <<>>)
           /\ yielded' # yielded =>
                /\ yielded' = Append(yielded, yielded'[Len(yielded')])
                /\ yielded'[Len(yielded')].origin = buffer_origin
                /\ yielded'[Len(yielded')].origin # <<>>
                /\ yielded'[Len(yielded')].sentence = convert_buffer(buffer).sentence
                /\ \A k \in 1..Len(buffer_origin') :
                      buffer_origin'[k].idx = Len(stream)
                /\ Len(buffer') <= 1]_vars

C6_Witness ==
    /\ Len(yielded) = 1
    /\ yielded[1].cause = "blank"
    /\ buffer = <<>>
    /\ Len(stream) = 3
    /\ IsBlank(stream[1].line)
    /\ IsBlank(stream[3].line)

\* C7 as stated: when the scan has stopped on a malformed directive, no record
\* was emitted while that line was processed.
C7_NoEmissionAtBadLine ==
    pc = "raised" => \A i \in 1..Len(yielded) : yielded[i].at < Len(stream) - 1

\* C7 amended: the scan stops at the malformed directive: no later line is
\* processed, nothing is emitted once the parse has failed and buffered lines
\* of the directive's own document are never flushed; but a directive that is
\* the first line read from a new document is preceded by the document-change
\* flush, which emits the previous document's buffered lines as one record.
C7_AbortAtBadLine ==
    [][/\ (pc = "running" /\ pc' = "raised") =>
            IF buffer # <<>> /\ stream'[Len(stream')].filename # buffer_origin[1].doc
            THEN /\ Len(yielded') = Len(yielded) + 1
                 /\ SubSeq(yielded', 1, Len(yielded)) = yielded
                 /\ yielded'[Len(yielded')].origin = buffer_origin
                 /\ buffer' = <<>>
            ELSE yielded' = yielded /\ buffer' = buffer
       /\ pc = "raised" => UNCHANGED <<stream, yielded, buffer, pc>>]_vars

C7_Witness ==
    /\ pc = "raised"
    /\ yielded # <<>>
    /\ yielded[Len(yielded)].cause = "document"
    /\ yielded[Len(yielded)].at = Len(stream) - 1

\* C8 as stated: a scan that fails has delivered no record.
C8_AllOrNothing == pc = "raised" => yielded = <<>>

\* C8 amended: records are delivered as they are emitted: a scan that fails
\* on a malformed directive has delivered one record for each run of content
\* lines closed before the directive was parsed, and the run still open is
\* not delivered; main then ends with the error and has written no table.
C8_PrefixDelivered ==
    pc = "raised" =>
        /\ Len(yielded) = NumRuns(stream) - (IF OpenRun(stream) THEN 1 ELSE 0)
        /\ OpenRun(stream) <=> buffer # <<>>
        /\ main_pc = "crashed"
        /\ tables = NoTables

C8_Witness ==
    /\ pc = "raised"
    /\ Len(yielded) = 1
    /\ yielded[1].cause = "blank"

\* C9: with no input file the scan yields nothing and main's split and
\* concatenation end without an error.
C9_EmptyInputSplits ==
    (pc = "done" /\ stream = <<>>) => (yielded = <<>> /\ main_pc # "crashed")

\* the value set by the last directive among the first n lines of str
LastDirective(str, n, is_kind(_), get_value(_)) ==
    LET seen == {i \in 1..n : ~StartsWithBracket(str[i].line) /\ is_kind(str[i].line)}
    IN IF seen = {} THEN None
       ELSE Some(get_value(str[CHOOSE i \in seen : \A j \in seen : j <= i].line))

\* C10: in every emitted record book, review_id and score are the values of
\* the last book, review-id and score directive read before the emission,
\* in whatever document it was read, or unset if there was none.
C10_Sticky ==
    \A r \in 1..Len(yielded) :
        LET rec == yielded[r]
        IN /\ rec.fields.book = LastDirective(stream, rec.at, is_book, get_book)
           /\ rec.fields.review_id =
                 LastDirective(stream, rec.at, is_review_id, get_review_id)
           /\ rec.fields.score = LastDirective(stream, rec.at, is_score, get_score)

\* a record of the second file carries the book set in the first
C10_Witness ==
    \E r \in 1..Len(yielded) :
        /\ yielded[r].fields.source = Some(Filename(2))
        /\ yielded[r].fields.book # None
        /\ \A i \in 1..Len(stream) :
              is_book(stream[i].line) => stream[i].filename = Filename(1)

\* ------------------------------------------------------------ the labels
\* the content lines of a yielded record, as they stand in the stream
LinesOf(rec) ==
    [i \in 1..Len(rec.origin) |-> stream[rec.origin[i].idx + 1].line]

\* the label strings of a line: its tab-separated columns after the first
LabelStrings(line) == Tail(split(line, "\t"))

\* the last character of the label that is not whitespace is c
TrailingChar(label, c) ==
    \E i \in 1..Len(label) :
        label[i] = c /\ \A j \in (i + 1)..Len(label) : label[j] \in Whitespace

\* some label string of the lines ends with c
Evidence(lines, c) ==
    \E i \in 1..Len(lines) :
        \E k \in 1..Len(LabelStrings(lines[i])) :
            TrailingChar(LabelStrings(lines[i])[k], c)

ExpectedLabel(lines) ==
    IF Evidence(lines, "+") /\ ~Evidence(lines, "-") THEN "positive"
    ELSE IF Evidence(lines, "-") /\ ~Evidence(lines, "+") THEN "negative"
    ELSE IF Evidence(lines, "+") /\ Evidence(lines, "-") THEN "mixed"
    ELSE "neutral"

\* C11: the label of every emitted sentence is positive if some label string
\* of its lines ends (whitespace aside) with '+' and none with '-', negative
\* if some ends with '-' and none with '+', mixed if both occur and neutral
\* if neither does, a sentence whose lines have no label column included.
C11_LabelRule ==
    \A r \in 1..Len(yielded) : yielded[r].label = ExpectedLabel(LinesOf(yielded[r]))

\* a mixed sentence and a sentence without any label column
C11_Witness ==
    /\ Len(yielded) = 2
    /\ yielded[1].label = "mixed"
    /\ yielded[2].label = "neutral"
    /\ \A i \in 1..Len(yielded[2].origin) :
          Len(split(LinesOf(yielded[2])[i], "\t")) = 1

\* the permutations of 1..n
Perms(n) == {p \in [1..n -> 1..n] : \A i, j \in 1..n : p[i] = p[j] => i = j}

\* columns joined by tabs
RECURSIVE JoinTab(_)
JoinTab(columns) ==
    IF Len(columns) = 1 THEN columns[1]
    ELSE columns[1] \o <<"\t">> \o JoinTab(Tail(columns))

\* the line with its label columns in every order
ColumnOrders(line) ==
    LET columns == split(line, "\t")
        labels == Tail(columns)
    IN {JoinTab(<<columns[1]>> \o [k \in 1..Len(labels) |-> labels[q[k]]]) :
            q \in Perms(Len(labels))}

\* one element of each set, in order
RECURSIVE Products(_)
Products(sets) ==
    IF sets = <<>> THEN {<<>>}
    ELSE {<<h>> \o rest : h \in Head(sets), rest \in Products(Tail(sets))}

\* the buffers made of the given lines in any order, each line with its label
\* columns in any order
Rearrangements(lines) ==
    UNION {Products([i \in 1..Len(lines) |-> ColumnOrders(lines[p[i]])]) :
                p \in Perms(Len(lines))}

\* C12: the label of an emitted sentence does not depend on the order of its
\* lines nor on the order of the label columns within a line: convert_buffer
\* gives the same label for every rearrangement of the buffer.
C12_OrderIndependent ==
    \A r \in 1..Len(yielded) :
        \A b \in Rearrangements(LinesOf(yielded[r])) :
            convert_buffer(b).label = yielded[r].label

\* a sentence of two different lines, one with two label columns, whose text
\* changes with the order
C12_Witness ==
    \E r \in 1..Len(yielded) :
        /\ Len(yielded[r].origin) = 2
        /\ LinesOf(yielded[r])[1] = PosLine
        /\ LinesOf(yielded[r])[2] = TwoLabelLine
        /\ yielded[r].label = "mixed"
        /\ \E b \in Rearrangements(LinesOf(yielded[r])) :
              convert_buffer(b).sentence # yielded[r].sentence

\* C13: in every emitted record unique_review_id is the key of that record's
\* own source, book and review_id.
C13_KeyOfOwnFields ==
    \A r \in 1..Len(yielded) :
        LET f == yielded[r].fields
        IN f.unique_review_id = get_unique_review_id(f.source[1], f.book, f.review_id)

\* C14 as stated: a step that reads a skip-line leaves the metadata and the
\* buffer as they are and emits nothing.
C14_SkipChangesNothing ==
    [][(ReadStep /\ StartsWithBracket(stream'[Len(stream')].line))
       => UNCHANGED <<metadata_fields, buffer, yielded>>]_vars

\* C14 amended: a step that reads a skip-line never changes the metadata nor
\* previous_filename and never appends to the buffer; it does one thing only
\* when the line comes from another file than the buffered lines: the
\* document-change flush, which emits the buffer as one record with the
\* metadata as it stands and clears the buffer.
C14_SkipOnlyFlushes ==
    [][(ReadStep /\ StartsWithBracket(stream'[Len(stream')].line))
       => /\ metadata_fields' = metadata_fields
          /\ previous_filename' = previous_filename
          /\ pc' = pc
          /\ IF buffer # <<>> /\ stream'[Len(stream')].filename # buffer_origin[1].doc
             THEN /\ Len(yielded') = Len(yielded) + 1
                  /\ SubSeq(yielded', 1, Len(yielded)) = yielded
                  /\ yielded'[Len(yielded')].origin = buffer_origin
                  /\ yielded'[Len(yielded')].fields = metadata_fields
                  /\ buffer' = <<>>
             ELSE yielded' = yielded /\ buffer' = buffer]_vars

\* a skip-line that opens the second file has flushed the first file's sentence
C14_Witness ==
    /\ Len(stream) >= 2
    /\ StartsWithBracket(LastLine.line)
    /\ yielded # <<>>
    /\ yielded[Len(yielded)].cause = "document"
    /\ yielded[Len(yielded)].at = Len(stream) - 1
    /\ buffer = <<>>

\* a line that starts with one of the five directive prefixes
IsDirective(line) ==
    \/ is_title(line) \/ is_body(line) \/ is_book(line)
    \/ is_review_id(line) \/ is_score(line)

\* C15: once the stream has ended, every line that starts neither with '['
\* nor with one of the five directive prefixes and is not blank is a line of
\* some emitted record.
C15_OtherLinesAreContent ==
    pc = "done" =>
        \A i \in 1..Len(stream) :
            (/\ ~StartsWithBracket(stream[i].line)
             /\ ~IsDirective(stream[i].line)
             /\ ~IsBlankText(stream[i].line))
            => \E r \in 1..Len(yielded) :
                   \E k \in 1..Len(yielded[r].origin) :
                       yielded[r].origin[k].idx = i - 1

\* the number of lines the loop has taken up when the record is yielded: the
\* blank line that causes the yield is one of them, the line that brings the
\* document change is not
LinesBefore(rec) == IF rec.cause = "blank" THEN rec.at + 1 ELSE rec.at

\* the 0-based ordinal of the last of the first n lines that is no skip-line
LastNonSkip(str, n) ==
    LET seen == {i \in 1..n : ~StartsWithBracket(str[i].line)}
    IN (CHOOSE i \in seen : \A j \in seen : j <= i) - 1

\* C16: the sentence_id of every emitted record is the ordinal (from 0) in
\* the whole stream of the last non-skip line processed before the emission,
\* and sentence_id increases strictly along the emitted sequence.
C16_SentenceId ==
    /\ \A r \in 1..Len(yielded) :
          yielded[r].fields.sentence_id =
              Some(LastNonSkip(stream, LinesBefore(yielded[r])))
    /\ \A r, q \in 1..Len(yielded) :
          r < q => yielded[r].fields.sentence_id[1] < yielded[q].fields.sentence_id[1]

\* a document-change record whose last non-skip line is two lines back, then
\* a second record
C16_Witness ==
    /\ Len(yielded) = 2
    /\ yielded[1].cause = "document"
    /\ yielded[1].at = 2
    /\ yielded[1].fields.sentence_id = Some(0)
    /\ yielded[2].fields.sentence_id = Some(2)

\* the elements of a sequence
Range(seq) == {seq[i] : i \in 1..Len(seq)}

\* the table has been written and holds the row
InTable(table, row) == table # None /\ row \in Range(table[1])

\* C17: when main has ended, dev, test and train are the first
\* floor(0.16 n), the next floor(0.2 n) and the remaining documents of
\* book_dict, pairwise disjoint and together all of them, and every emitted
\* record is in exactly one of the three tables.
C17_SplitIsPartition ==
    main_pc # "consuming" /\ pc = "done" =>
        LET n == Len(book_dict)
            dev == dev_books(book_dict)
            test == test_books(book_dict)
            train == train_books(book_dict)
        IN /\ dev \o test \o train = Keys(book_dict)
           /\ Len(dev) = (16 * n) \div 100
           /\ Len(test) = (20 * n) \div 100
           /\ Range(dev) \cap Range(test) = {}
           /\ Range(dev) \cap Range(train) = {}
           /\ Range(test) \cap Range(train) = {}
           /\ \A r \in 1..Len(yielded) :
                 Cardinality({k \in {"train", "dev", "test"} :
                                InTable(tables[k], Row(yielded[r]))}) = 1

\* C18: the source of every emitted record is the document all its content
\* lines were read from, whatever caused the emission, and main files every
\* row under the document of its lines.
C18_SourceIsOrigin ==
    /\ \A r \in 1..Len(yielded) :
          \A i \in 1..Len(yielded[r].origin) :
              yielded[r].fields.source = Some(yielded[r].origin[i].doc)
    /\ \A e \in 1..Len(book_dict) :
          \A k \in 1..Len(book_dict[e].rows) :
              \E r \in 1..Len(yielded) :
                  /\ Row(yielded[r]) = book_dict[e].rows[k]
                  /\ book_dict[e].source = Some(yielded[r].origin[1].doc)
    /\ \A r \in 1..Len(yielded) :
          \E e \in 1..Len(book_dict) : Row(yielded[r]) \in Range(book_dict[e].rows)

\* one record flushed by the change of document, one of the second document
\* flushed by a blank line, each filed under its own document
C18_Witness ==
    /\ Len(yielded) = 2
    /\ yielded[1].cause = "document"
    /\ yielded[2].cause = "blank"
    /\ yielded[1].fields.source = Some(Filename(1))
    /\ yielded[2].fields.source = Some(Filename(2))
    /\ Len(book_dict) = 2

\* the positions in str of its content lines, in order
ContentPositions(str) ==
    SelectSeq([i \in 1..Len(str) |-> i], LAMBDA i : IsContent(str[i].line))

\* the positions in the stream of the lines of all yielded records, in order
\* of emission
EmittedPositions ==
    flatten_2d_list([r \in 1..Len(yielded) |->
        [k \in 1..Len(yielded[r].origin) |-> yielded[r].origin[k].idx + 1]])

\* the token of a line: its text before the first tab
Token(line) ==
    IF \E i \in 1..Len(line) : line[i] = "\t"
    THEN SubSeq(line, 1, (CHOOSE i \in 1..Len(line) :
                            line[i] = "\t" /\ \A j \in 1..(i - 1) : line[j] # "\t") - 1)
    ELSE line

\* C19: when the scan has completed, the lines of the emitted records, taken
\* in order of emission, are exactly the content lines of the input in input
\* order, each once, and every sentence is made of the tokens of its lines.
C19_NothingLost ==
    pc = "done" =>
        /\ EmittedPositions = ContentPositions(stream)
        /\ \A r \in 1..Len(yielded) :
              yielded[r].sentence =
                  join([k \in 1..Len(yielded[r].origin) |-> Token(LinesOf(yielded[r])[k])])

\* three content lines in two records, the last flushed at the end of the stream
C19_Witness ==
    /\ pc = "done"
    /\ Len(yielded) = 2
    /\ Len(yielded[2].origin) = 2
    /\ yielded[2].cause = "end"
    /\ yielded[2].sentence # yielded[1].sentence

\* ------------------------- the loop with the document change tested on source
\* step 1 of the written algorithm: the line's document differs from the
\* source recorded in the snapshot and the buffer is non-empty
SourceChangeFlush(s, idx, filename) ==
    IF s.metadata_fields.source # None /\ Some(filename) # s.metadata_fields.source
    THEN IF s.buffer # <<>> THEN Flush(s, idx, "document") ELSE s
    ELSE s

SourceLoopBody(s, idx, filename, line) ==
    LET s1 == SourceChangeFlush(s, idx, filename)
    IN IF StartsWithBracket(line) THEN s1
       ELSE LET s2 == [s1 EXCEPT !.metadata_fields =
                            RefreshMetadata(@, idx, filename)]
            IN IF is_metadata(line) THEN Dispatch(s2, line)
               ELSE SeparatorOrContent(s2, idx, filename, line)

RECURSIVE SourceRunLoop(_, _, _)
SourceRunLoop(s, str, i) ==
    IF i > Len(str) \/ s.pc # "running" THEN s
    ELSE SourceRunLoop(SourceLoopBody(s, i - 1, str[i].filename, str[i].line),
                       str, i + 1)

SourceScan(str) ==
    LET s == SourceRunLoop(InitialGenState, str, 1)
    IN IF s.pc = "running" THEN AfterLoop(s, Len(str)) ELSE s

\* C20: testing the document change against previous_filename, as the code
\* does, or against the snapshot's source gives the same records for every
\* input: whenever the buffer is non-empty, previous_filename and source are
\* both the document of the buffered lines.
C20_SameAsSourceTest ==
    /\ buffer # <<>> =>
          /\ previous_filename = Some(buffer_origin[1].doc)
          /\ metadata_fields.source = Some(buffer_origin[1].doc)
    /\ pc # "running" =>
          /\ Records(yielded) = Records(SourceScan(stream).yielded)
          /\ pc = SourceScan(stream).pc

\* the scan has flushed on a document change and the two comparands differ
C20_Witness ==
    /\ pc = "done"
    /\ yielded # <<>>
    /\ yielded[1].cause = "document"
    /\ previous_filename # metadata_fields.source

====
